---- MODULE Spec2Model ----
(***************************************************************************)
(* A model of the bookstore API: the books table (app/models.py) in the    *)
(* SQLite database of app/database.py, the Book Store functions of         *)
(* app/crud.py, and the request handlers and routes of                     *)
(* app/routers/books.py.                                                   *)
(*                                                                         *)
(* Text is a sequence of one-character strings.  An Optional value is a    *)
(* set: None is {} and a present value x is {x}.                           *)
(***************************************************************************)
EXTENDS Integers, Sequences, FiniteSets, TLC

VARIABLES
    books,      \* the rows of table "books": a set of Book records
    assigned,   \* history: every id a create has ever returned
    order,      \* history: ids of the stored rows, in insertion order
    last,       \* the last call: its operation, arguments and outcome
    sessions,   \* per database session: the create it is carrying out
    http        \* the last HTTP request and the response to it

vars == <<books, assigned, order, last, sessions, http>>

----------------------------------------------------------------------------
(* Bounds of the model *)

\* creates are explored while the id they would get is at most MaxId
MaxId == 2

----------------------------------------------------------------------------
(* Values *)

None == {}
Some(x) == {x}

\* schemas.py: the Field(...) limits of BookBase / BookUpdate
TitleMinLen == 1
TitleMaxLen == 200
AuthorMinLen == 1
AuthorMaxLen == 100
IsbnMinLen == 10
IsbnMaxLen == 13
YearMin == 1000
YearMax == 2030

Fields == {"title", "author", "isbn", "published_year"}

Dune == <<"D", "u", "n", "e">>
Emma == <<"E", "m", "m", "a">>
Herbert == <<"H", "e", "r", "b", "e", "r", "t">>
Isbn13 == <<"9", "7", "8", "0", "4", "4", "1", "0", "1", "3", "5", "9", "3">>
Isbn10 == <<"0", "4", "4", "1", "0", "1", "3", "5", "9", "3">>

Titles == {Dune, Emma}
Authors == {Herbert}
Isbns == {Isbn13, Isbn10}
Years == {1965}

Opt(S) == {None} \cup {Some(x) : x \in S}

\* the value of an Optional known to be present
The(o) == CHOOSE x \in o : TRUE

----------------------------------------------------------------------------
(* Outcomes of a call *)

RetBook(b) == [kind |-> "Book", val |-> b]
RetNone == [kind |-> "None", val |-> {}]
RetBool(b) == [kind |-> "Bool", val |-> b]
RetList(s) == [kind |-> "List", val |-> s]
Raise(e) == [kind |-> "Raise", val |-> e]

----------------------------------------------------------------------------
(* The storage layer: table books of models.py in SQLite (database.py) *)

Ids(rows) == {r.id : r \in rows}

MaxOf(S) == CHOOSE m \in S : \A x \in S : x <= m

\* Column(Integer, primary_key=True) without sqlite_autoincrement: the id is
\* SQLite's rowid, and a new row gets the largest stored rowid plus one.
NextRowid(rows) == IF rows = {} THEN 1 ELSE MaxOf(Ids(rows)) + 1

\* the constraints of a table whose title and author lack nullable=False
ConstraintsOkNullable(rows) ==
    /\ \A r1 \in rows : \A r2 \in rows :
          (r1 # r2 /\ r1.isbn # None) => r1.isbn # r2.isbn
    /\ \A r1 \in rows : \A r2 \in rows : r1 # r2 => r1.id # r2.id

\* the constraints of a table whose isbn column lacks unique=True
ConstraintsOkNoUnique(rows) ==
    /\ \A r \in rows : r.title # None /\ r.author # None
    /\ \A r1 \in rows : \A r2 \in rows : r1 # r2 => r1.id # r2.id

\* nullable=False on title and author, unique=True on isbn (NULLs are
\* distinct for a UNIQUE index), id the primary key
ConstraintsOk(rows) ==
    /\ \A r \in rows : r.title # None /\ r.author # None
    /\ \A r1 \in rows : \A r2 \in rows :
          (r1 # r2 /\ r1.isbn # None) => r1.isbn # r2.isbn
    /\ \A r1 \in rows : \A r2 \in rows : r1 # r2 => r1.id # r2.id

\* db.commit(): the flushed rows become the table, or the statement fails
\* with IntegrityError and the table keeps the rows it had
Commit(rows, new, ret) ==
    IF ConstraintsOk(new)
    THEN [rows |-> new, ret |-> ret]
    ELSE [rows |-> rows, ret |-> Raise("IntegrityError")]

RECURSIVE SortById(_)
\* a SELECT without ORDER BY walks the table in rowid order
SortById(rows) ==
    IF rows = {} THEN <<>>
    ELSE LET r == CHOOSE x \in rows : \A y \in rows : x.id <= y.id
         IN <<r>> \o SortById(rows \ {r})

\* Query.first(): the first row of the result, or None
First(s) == IF s = <<>> THEN RetNone ELSE RetBook(Head(s))

\* db.query(Book).filter(...): the rows that satisfy the filter, in rowid order
Query(matching) == SortById(matching)

----------------------------------------------------------------------------
(* SQL text matching, as SQLite evaluates it *)

UpperCase == <<"A", "B", "C", "D", "E", "F", "G", "H", "I", "J", "K", "L", "M",
               "N", "O", "P", "Q", "R", "S", "T", "U", "V", "W", "X", "Y", "Z">>
LowerCase == <<"a", "b", "c", "d", "e", "f", "g", "h", "i", "j", "k", "l", "m",
               "n", "o", "p", "q", "r", "s", "t", "u", "v", "w", "x", "y", "z">>

\* lower() of one character: ASCII letters fold, everything else stays
LowerChar(c) ==
    IF \E i \in 1..Len(UpperCase) : UpperCase[i] = c
    THEN LowerCase[CHOOSE i \in 1..Len(UpperCase) : UpperCase[i] = c]
    ELSE c

Lower(t) == [i \in 1..Len(t) |-> LowerChar(t[i])]

RECURSIVE LikeMatch(_, _)
\* text LIKE pat: % matches any run of characters (the empty one too), _ any
\* one character, every other character itself; no ESCAPE character is given
LikeMatch(pat, text) ==
    IF pat = <<>> THEN text = <<>>
    ELSE IF Head(pat) = "%"
         THEN \/ LikeMatch(Tail(pat), text)
              \/ text # <<>> /\ LikeMatch(pat, Tail(text))
    ELSE /\ text # <<>>
         /\ Head(pat) = "_" \/ Head(pat) = Head(text)
         /\ LikeMatch(Tail(pat), Tail(text))

\* column.ilike(pat): lower(column) LIKE lower(pat); NULL matches nothing
ILike(col, pat) == col # None /\ LikeMatch(Lower(pat), Lower(The(col)))

----------------------------------------------------------------------------
(* app/crud.py: the Book Store functions.  Each yields the rows of the     *)
(* table after the call and what the call returns or raises.               *)

\* db.query(Book).offset(skip).limit(limit).all(): SQLite reads a negative
\* OFFSET as 0 and a negative LIMIT as no limit
get_all_books(rows, skip, limit) ==
    LET all == SortById(rows)
        off == IF skip < 0 THEN 0 ELSE skip
        rest == SubSeq(all, off + 1, Len(all))
        n == IF limit < 0 \/ limit > Len(rest) THEN Len(rest) ELSE limit
    IN [rows |-> rows, ret |-> RetList(SubSeq(rest, 1, n))]

get_book_by_id(rows, book_id) ==
    LET Test(r) == r.id = book_id
    IN [rows |-> rows, ret |-> First(Query({r \in rows : Test(r)}))]

\* Python truth of an Optional[str]: neither None nor the empty string
Truthy(o) == o # None /\ The(o) # <<>>

\* SQL equality: NULL = x is never true
get_book_by_isbn(rows, isbn) ==
    LET Test(r) == r.isbn # None /\ r.isbn = Some(isbn)
    IN [rows |-> rows, ret |-> First(Query({r \in rows : Test(r)}))]

\* a create that loses the isbn of the request
create_bookDropIsbn(rows, book) ==
    LET db_book == [id |-> NextRowid(rows),
                    title |-> book.title,
                    author |-> book.author,
                    isbn |-> None,
                    published_year |-> book.published_year]
    IN Commit(rows, rows \cup {db_book}, RetBook(db_book))

create_book(rows, book) ==
    LET db_book == [id |-> NextRowid(rows),
                    title |-> book.title,
                    author |-> book.author,
                    isbn |-> book.isbn,
                    published_year |-> book.published_year]
    IN Commit(rows, rows \cup {db_book}, RetBook(db_book))

search_books(rows, search_term) ==
    LET pat == <<"%">> \o search_term \o <<"%">>
        Test(r) == ILike(r.title, pat) \/ ILike(r.author, pat)
    IN [rows |-> rows, ret |-> RetList(Query({r \in rows : Test(r)}))]

\* book.model_dump(exclude_unset=True): the fields the request set
ModelDumpSet(book) == book.fields_set

\* the loop over book.model_dump(), which holds the unset fields too
SetAttrsAll(db_book, book) ==
    [id |-> db_book.id,
     title |-> book.title,
     author |-> book.author,
     isbn |-> book.isbn,
     published_year |-> book.published_year]

\* the loop of setattr(db_book, field, value) over the dumped fields
SetAttrs(db_book, book) ==
    LET New(f) == IF f \in ModelDumpSet(book) THEN book[f] ELSE db_book[f]
    IN [id |-> db_book.id,
        title |-> New("title"),
        author |-> New("author"),
        isbn |-> New("isbn"),
        published_year |-> New("published_year")]

update_book(rows, book_id, book) ==
    LET found == get_book_by_id(rows, book_id).ret
    IN IF found.kind = "Book"
       THEN LET db_book == found.val
                changed == SetAttrs(db_book, book)
            IN Commit(rows, (rows \ {db_book}) \cup {changed}, RetBook(changed))
       ELSE [rows |-> rows, ret |-> RetNone]

\* a delete that reports success for an id that is not stored
delete_bookAlwaysTrue(rows, book_id) ==
    LET found == get_book_by_id(rows, book_id).ret
    IN IF found.kind = "Book"
       THEN Commit(rows, rows \ {found.val}, RetBool(TRUE))
       ELSE [rows |-> rows, ret |-> RetBool(TRUE)]

delete_book(rows, book_id) ==
    LET found == get_book_by_id(rows, book_id).ret
    IN IF found.kind = "Book"
       THEN Commit(rows, rows \ {found.val}, RetBool(TRUE))
       ELSE [rows |-> rows, ret |-> RetBool(FALSE)]

----------------------------------------------------------------------------
(* app/schemas.py: validation of request bodies *)

LenIn(o, lo, hi) == o = None \/ (lo <= Len(The(o)) /\ Len(The(o)) <= hi)
YearIn(o) == o = None \/ (YearMin <= The(o) /\ The(o) <= YearMax)

\* BookCreate: title and author required (and not null), the others optional
ValidBookCreate(b) ==
    /\ b.title # None /\ LenIn(b.title, TitleMinLen, TitleMaxLen)
    /\ b.author # None /\ LenIn(b.author, AuthorMinLen, AuthorMaxLen)
    /\ LenIn(b.isbn, IsbnMinLen, IsbnMaxLen)
    /\ YearIn(b.published_year)

\* BookUpdate: every field Optional, so null passes, with default None
ValidBookUpdate(b) ==
    /\ LenIn(b.title, TitleMinLen, TitleMaxLen)
    /\ LenIn(b.author, AuthorMinLen, AuthorMaxLen)
    /\ LenIn(b.isbn, IsbnMinLen, IsbnMaxLen)
    /\ YearIn(b.published_year)

\* fields_set holds the fields a body named; a field it did not name has
\* the default of Field(None, ...)
HasDefaults(b) == \A f \in Fields \ b.fields_set : b[f] = None

----------------------------------------------------------------------------
(* Inputs *)

\* request bodies as parsed, before validation
RawBodies ==
    [title : Opt(Titles \cup {<<>>}), author : Opt(Authors),
     isbn : Opt(Isbns \cup {<<"9", "7", "8">>}), published_year : Opt(Years \cup {999})]

BookCreates == {b \in RawBodies : ValidBookCreate(b)}

\* update bodies: those naming at most one field, and two naming two
BookUpdates ==
    {b \in [fields_set : SUBSET Fields, title : Opt(Titles \cup {<<>>}),
            author : Opt(Authors), isbn : Opt(Isbns),
            published_year : Opt(Years \cup {999})] :
        /\ HasDefaults(b)
        /\ ValidBookUpdate(b)
        /\ \/ Cardinality(b.fields_set) <= 1
           \/ b.fields_set = {"title", "published_year"}
                /\ b.title = Some(Emma) /\ b.published_year = Some(1965)
           \/ b.fields_set = {"title", "isbn"}
                /\ b.title = None /\ b.isbn = Some(Isbn10)}

\* database sessions that run at the same time, one request each
Sessions == {"s1", "s2"}

IdleSession == [pc |-> "idle", book |-> <<>>, passed |-> FALSE, ret |-> RetNone]

\* every id the model can store, and one more
BookIds == 1..(MaxId + 1)

\* ids a caller asks for: the stored ones and one that is not stored
AskedIds(rows) == Ids(rows) \cup {NextRowid(rows)}

----------------------------------------------------------------------------
(* The Book Store functions called one at a time on one table *)

\* the insertion order of the rows stored after a call, and the ids given out
Track ==
    LET kept(i) == i \in Ids(books')
        new == Ids(books') \ Ids(books)
    IN /\ order' = SelectSeq(order, kept) \o (IF new = {} THEN <<>> ELSE <<MaxOf(new)>>)
       /\ assigned' = assigned \cup new

Call(op, args, out) ==
    /\ books' = out.rows
    /\ last' = [op |-> op, args |-> args, ret |-> out.ret]
    /\ Track
    /\ UNCHANGED <<sessions, http>>

CreateBook ==
    \E book \in BookCreates :
        /\ NextRowid(books) <= MaxId
        /\ Call("create_book", [book |-> book], create_book(books, book))

UpdateBook ==
    \E book_id \in BookIds : \E book \in BookUpdates :
        /\ book_id \in AskedIds(books)
        /\ Call("update_book", [book_id |-> book_id, book |-> book],
             update_book(books, book_id, book))

DeleteBook ==
    \E book_id \in BookIds :
        /\ book_id \in AskedIds(books)
        /\ Call("delete_book", [book_id |-> book_id], delete_book(books, book_id))

Init ==
    /\ books = {}
    /\ assigned = {}
    /\ order = <<>>
    /\ last = [op |-> "none", args |-> <<>>, ret |-> RetNone]
    /\ sessions = [s \in Sessions |-> IdleSession]
    /\ http = [req |-> <<>>, route |-> "none", status |-> 0, calls |-> <<>>]

Next == CreateBook \/ UpdateBook \/ DeleteBook

Spec == Init /\ [][Next]_vars

----------------------------------------------------------------------------
(* Properties of the Book Store functions *)

RowOf(rows, id) == CHOOSE r \in rows : r.id = id

Stored(id) == id \in Ids(books)

\* C1: the id create_book returns was never returned by an earlier create,
\* not even for a Book that has since been deleted
C1_IdNeverReused ==
    [][(last'.op = "create_book" /\ last'.ret.kind = "Book")
          => last'.ret.val.id \notin assigned]_vars

\* C2: no two stored Books have the same non-absent isbn
C2_IsbnUnique ==
    \A r1 \in books : \A r2 \in books :
        (r1 # r2 /\ r1.isbn # None) => r1.isbn # r2.isbn

\* an update asked for the isbn of another stored Book and was refused
C2_Witness ==
    /\ last.op = "update_book"
    /\ last.ret = Raise("IntegrityError")
    /\ "isbn" \in last.args.book.fields_set
    /\ last.args.book.isbn # None
    /\ \E r \in books : r.id # last.args.book_id /\ r.isbn = last.args.book.isbn

\* what an update that returns a Book has done to the table
UpdateApplied(old_rows, new_rows, book_id, book, ret) ==
    /\ book_id \in Ids(old_rows)
    /\ book_id \in Ids(new_rows)
    /\ ret.kind = "Book"
    /\ LET old == RowOf(old_rows, book_id)
           new == RowOf(new_rows, book_id)
       IN /\ \A f \in Fields :
                new[f] = IF f \in book.fields_set THEN book[f] ELSE old[f]
          /\ new_rows \ {new} = old_rows \ {old}
          /\ ret.val = new

\* the update would leave a required column null or repeat another Book's isbn
BreaksConstraint(rows, book_id, book) ==
    \/ "title" \in book.fields_set /\ book.title = None
    \/ "author" \in book.fields_set /\ book.author = None
    \/ /\ "isbn" \in book.fields_set
       /\ book.isbn # None
       /\ \E r \in rows : r.id # book_id /\ r.isbn = book.isbn

C5_Delete ==
    [][/\ last'.op = "delete_book" =>
            IF Stored(last'.args.book_id)
            THEN /\ last'.ret = RetBool(TRUE)
                 /\ books' = books \ {RowOf(books, last'.args.book_id)}
                 /\ get_book_by_id(books', last'.args.book_id).ret = RetNone
            ELSE last'.ret = RetBool(FALSE) /\ books' = books
       /\ \A id \in BookIds :
            (get_book_by_id(books, id).ret = RetNone
               /\ get_book_by_id(books', id).ret # RetNone)
            => (last'.op = "create_book" /\ last'.ret.kind = "Book"
                  /\ last'.ret.val.id = id)]_vars

\* a stored Book was deleted and another one is still there
C5_Witness ==
    /\ last.op = "delete_book"
    /\ last.ret = RetBool(TRUE)
    /\ ~Stored(last.args.book_id)
    /\ books # {}

\* C8: right after create_book returns a Book, get_book_by_id with its id
\* returns that record, the record has exactly the supplied fields, and
\* get_book_by_isbn with a supplied isbn returns it too
C8_CreateReadBack ==
    (last.op = "create_book" /\ last.ret.kind = "Book") =>
        LET b == last.ret.val
            req == last.args.book
        IN /\ get_book_by_id(books, b.id).ret = RetBook(b)
           /\ \A f \in Fields : b[f] = req[f]
           /\ req.isbn # None =>
                get_book_by_isbn(books, The(req.isbn)).ret = RetBook(b)

\* a create with an isbn and no year succeeded beside a Book stored earlier
C8_Witness ==
    /\ last.op = "create_book"
    /\ last.ret.kind = "Book"
    /\ last.args.book.isbn # None
    /\ last.args.book.published_year = None
    /\ last.ret.val.published_year = None
    /\ Cardinality(books) = 2

\* every stored Book has a title of 1-200 characters and an author of 1-100
RequiredFieldsSet(rows) ==
    \A r \in rows :
        /\ r.title # None
        /\ TitleMinLen <= Len(The(r.title)) /\ Len(The(r.title)) <= TitleMaxLen
        /\ r.author # None
        /\ AuthorMinLen <= Len(The(r.author)) /\ Len(The(r.author)) <= AuthorMaxLen

\* the update body names title or author and gives it null
NullsRequired(book) ==
    \/ "title" \in book.fields_set /\ book.title = None
    \/ "author" \in book.fields_set /\ book.author = None

----------------------------------------------------------------------------
(* The read functions on a table that creates and deletes have filled *)

\* str.strip(): leading and trailing blanks removed
RECURSIVE LStrip(_)
LStrip(t) == IF t # <<>> /\ Head(t) = " " THEN LStrip(Tail(t)) ELSE t

RECURSIVE RStrip(_)
RStrip(t) ==
    IF t # <<>> /\ t[Len(t)] = " " THEN RStrip(SubSeq(t, 1, Len(t) - 1)) ELSE t

Strip(t) == RStrip(LStrip(t))

\* routers/books.py search_books: q is refused when len(q.strip()) < 2
SearchLetsThrough(q) == ~(Len(Strip(q)) < 2)

SearchTerms ==
    { <<"u", "n">>, <<"U", "N">>, <<"e", "r">>, <<"m", "_">>, <<"%", "%">>,
      <<"z", "z">>, <<" ", "e">> }

Skips == {-1, 0, 1, 2}
Limits == {-1, 0, 1, 2, 100}

GetAllBooks ==
    \E skip \in Skips : \E limit \in Limits :
        Call("get_all_books", [skip |-> skip, limit |-> limit],
             get_all_books(books, skip, limit))

GetBookById ==
    \E book_id \in BookIds :
        /\ book_id \in AskedIds(books)
        /\ Call("get_book_by_id", [book_id |-> book_id], get_book_by_id(books, book_id))

GetBookByIsbn ==
    \E isbn \in Isbns :
        Call("get_book_by_isbn", [isbn |-> isbn], get_book_by_isbn(books, isbn))

SearchBooks ==
    \E search_term \in SearchTerms :
        Call("search_books", [search_term |-> search_term],
             search_books(books, search_term))

NextQuery ==
    \/ CreateBook
    \/ DeleteBook
    \/ GetAllBooks
    \/ GetBookById
    \/ GetBookByIsbn
    \/ SearchBooks

SpecQuery == Init /\ [][NextQuery]_vars

\* term occurs in the column's text, letter case ignored
Contains(col, term) ==
    /\ col # None
    /\ \E i \in 1..(Len(The(col)) - Len(term) + 1) :
          Lower(SubSeq(The(col), i, i + Len(term) - 1)) = Lower(term)

SeqToSet(s) == {s[i] : i \in 1..Len(s)}

\* C7: search_books(term), for a term the handler lets through, returns
\* every stored Book whose title or author contains term as a
\* case-insensitive substring, each once, and no other Book
C7_SearchIsSubstringMatch ==
    (last.op = "search_books" /\ SearchLetsThrough(last.args.search_term)) =>
        /\ SeqToSet(last.ret.val) =
              {r \in books : \/ Contains(r.title, last.args.search_term)
                             \/ Contains(r.author, last.args.search_term)}
        /\ Len(last.ret.val) = Cardinality(SeqToSet(last.ret.val))

\* the stored Books in the order they were inserted
InsertionOrder == [i \in 1..Len(order) |-> RowOf(books, order[i])]

\* the Books after the first skip of a sequence, limit of them at most
PageOf(all, skip, limit) ==
    LET from == IF skip < 0 THEN 0 ELSE skip
        Idx == {i \in 1..Len(all) : from < i /\ i <= from + limit}
    IN [k \in 1..Cardinality(Idx) |-> all[from + k]]

\* C9: get_all_books(skip, limit) returns at most limit Books, those that
\* follow the first skip Books in insertion order, whatever integers the
\* handler passes; on an empty table it returns the empty sequence
C9_PageOfInsertionOrder ==
    last.op = "get_all_books" =>
        /\ last.ret.kind = "List"
        /\ Len(last.ret.val) <= (IF last.args.limit < 0 THEN 0 ELSE last.args.limit)
        /\ last.ret.val = PageOf(InsertionOrder, last.args.skip, last.args.limit)

----------------------------------------------------------------------------
(* Two creates at once: the check-then-insert of the create handler       *)
(* (routers/books.py 56-64), each request on its own session, its two     *)
(* Book Store calls being separate statements on the database             *)

\* a session takes up a validated create request
Receive(s) ==
    \E book \in BookCreates :
        /\ sessions[s].pc = "idle"
        /\ sessions' = [sessions EXCEPT ![s] =
                           [pc |-> "check", book |-> book, passed |-> FALSE,
                            ret |-> RetNone]]
        /\ UNCHANGED <<books, assigned, order, last, http>>

\* if book.isbn: existing_book = get_book_by_isbn(...); if existing_book: 400
PreCheck(s) ==
    /\ sessions[s].pc = "check"
    /\ LET book == sessions[s].book
           existing == IF Truthy(book.isbn)
                       THEN get_book_by_isbn(books, The(book.isbn)).ret
                       ELSE RetNone
       IN sessions' = [sessions EXCEPT ![s] =
              IF existing.kind = "Book"
              THEN [@ EXCEPT !.pc = "done", !.ret = Raise("HTTP 400")]
              ELSE [@ EXCEPT !.pc = "insert", !.passed = TRUE]]
    /\ UNCHANGED <<books, assigned, order, last, http>>

\* return create_book(db=db, book=book)
Insert(s) ==
    /\ sessions[s].pc = "insert"
    /\ LET out == create_book(books, sessions[s].book)
       IN /\ books' = out.rows
          /\ last' = [op |-> "create_book", args |-> [book |-> sessions[s].book],
                      ret |-> out.ret]
          /\ sessions' = [sessions EXCEPT ![s] = [@ EXCEPT !.pc = "done", !.ret = out.ret]]
    /\ Track
    /\ UNCHANGED http

NextRace == \E s \in Sessions : Receive(s) \/ PreCheck(s) \/ Insert(s)

SpecRace == Init /\ [][NextRace]_vars

\* two sessions passed the pre-check with the same isbn and both finished
Raced(s1, s2) ==
    /\ s1 # s2
    /\ sessions[s1].pc = "done" /\ sessions[s2].pc = "done"
    /\ sessions[s1].passed /\ sessions[s2].passed
    /\ sessions[s1].book.isbn # None
    /\ sessions[s1].book.isbn = sessions[s2].book.isbn

----------------------------------------------------------------------------
(* app/routers/books.py and app/main.py: routes and request handlers *)

\* crud.py 9-13: the body of class BookRepository is a docstring and two
\* comments; the def statements that follow start at column 0, so they are
\* functions of module crud and the class has no method of its own
BookRepositoryMethods == {}

\* book_repository.<name>(db, ...): attribute lookup on the instance, then
\* the call
book_repository(name, rows, out) ==
    IF name \in BookRepositoryMethods
    THEN [rows |-> out.rows, ret |-> out.ret, name |-> name]
    ELSE [rows |-> rows, ret |-> Raise("AttributeError"), name |-> name]

Response(rows, status, calls) == [rows |-> rows, status |-> status, calls |-> calls]

Call1(c) == <<[name |-> c.name, ret |-> c.ret]>>

\* an exception no handler catches becomes 500 Internal Server Error
Unhandled(c) == Response(c.rows, 500, Call1(c))

route_get_books(rows, skip, limit) ==
    LET c == book_repository("get_all_books", rows, get_all_books(rows, skip, limit))
    IN IF c.ret.kind = "Raise" THEN Unhandled(c)
       ELSE Response(c.rows, 200, Call1(c))

route_get_book(rows, book_id) ==
    LET c == book_repository("get_book_by_id", rows, get_book_by_id(rows, book_id))
    IN IF c.ret.kind = "Raise" THEN Unhandled(c)
       ELSE IF c.ret.kind = "None" THEN Response(c.rows, 404, Call1(c))
       ELSE Response(c.rows, 200, Call1(c))

route_create_book(rows, book) ==
    LET c1 == book_repository("get_book_by_isbn", rows,
                              get_book_by_isbn(rows, The(book.isbn)))
        c2 == book_repository("create_book", rows, create_book(rows, book))
        create == IF c2.ret.kind = "Raise" THEN Unhandled(c2)
                  ELSE Response(c2.rows, 201, Call1(c2))
    IN IF Truthy(book.isbn)
       THEN IF c1.ret.kind = "Raise" THEN Unhandled(c1)
            ELSE IF c1.ret.kind = "Book" THEN Response(rows, 400, Call1(c1))
            ELSE [create EXCEPT !.calls = Call1(c1) \o @]
       ELSE create

route_update_book(rows, book_id, book) ==
    LET c == book_repository("update_book", rows, update_book(rows, book_id, book))
    IN IF c.ret.kind = "Raise" THEN Unhandled(c)
       ELSE IF c.ret.kind = "None" THEN Response(c.rows, 404, Call1(c))
       ELSE Response(c.rows, 200, Call1(c))

route_delete_book(rows, book_id) ==
    LET c == book_repository("delete_book", rows, delete_book(rows, book_id))
    IN IF c.ret.kind = "Raise" THEN Unhandled(c)
       ELSE IF ~c.ret.val THEN Response(c.rows, 404, Call1(c))
       ELSE Response(c.rows, 204, Call1(c))

route_search_books(rows, q) ==
    LET c == book_repository("search_books", rows, search_books(rows, q))
    IN IF ~SearchLetsThrough(q) THEN Response(rows, 400, <<>>)
       ELSE IF c.ret.kind = "Raise" THEN Unhandled(c)
       ELSE Response(c.rows, 200, Call1(c))

route_get_book_by_isbn(rows, isbn) ==
    LET c == book_repository("get_book_by_isbn", rows, get_book_by_isbn(rows, isbn))
    IN IF c.ret.kind = "Raise" THEN Unhandled(c)
       ELSE IF c.ret.kind = "None" THEN Response(c.rows, 404, Call1(c))
       ELSE Response(c.rows, 200, Call1(c))

route_get_book_stats(rows) ==
    LET c == book_repository("get_all_books", rows, get_all_books(rows, 0, 10000))
    IN IF c.ret.kind = "Raise" THEN Unhandled(c)
       ELSE Response(c.rows, 200, Call1(c))

\* path pieces: a literal segment, or a {parameter}
Lit(text) == [lit |-> TRUE, text |-> text]
Param(name) == [lit |-> FALSE, text |-> name]

SegSearch == <<"s", "e", "a", "r", "c", "h">>
SegStats == <<"s", "t", "a", "t", "s">>
SegIsbn == <<"i", "s", "b", "n">>

\* the @router decorators of routers/books.py in the order they run, which
\* is the order the routes are registered in; paths are relative to
\* /api/books (prefix "/api" of main.py, prefix "/books" of the router)
Routes ==
    << [name |-> "get_books", method |-> "GET", path |-> <<>>],
       [name |-> "get_book", method |-> "GET", path |-> <<Param("book_id")>>],
       [name |-> "create_book", method |-> "POST", path |-> <<>>],
       [name |-> "update_book", method |-> "PUT", path |-> <<Param("book_id")>>],
       [name |-> "delete_book", method |-> "DELETE", path |-> <<Param("book_id")>>],
       [name |-> "search_books", method |-> "GET", path |-> <<Lit(SegSearch)>>],
       [name |-> "get_book_by_isbn", method |-> "GET",
        path |-> <<Lit(SegIsbn), Param("isbn")>>],
       [name |-> "get_book_stats", method |-> "GET", path |-> <<Lit(SegStats)>>] >>

\* a route's path matches when every literal piece equals its segment and
\* every parameter stands for one non-empty segment
PathMatches(pattern, path) ==
    /\ Len(pattern) = Len(path)
    /\ \A i \in 1..Len(pattern) :
          IF pattern[i].lit THEN pattern[i].text = path[i] ELSE path[i] # <<>>

\* the router takes the first registered route that matches path and method;
\* a path that only routes of other methods match is 405, any other 404
Dispatch(method, path) ==
    LET Full == {i \in 1..Len(Routes) :
                    PathMatches(Routes[i].path, path) /\ Routes[i].method = method}
        Partial == {i \in 1..Len(Routes) : PathMatches(Routes[i].path, path)}
    IN IF Full # {} THEN Routes[CHOOSE i \in Full : \A j \in Full : i <= j].name
       ELSE IF Partial # {} THEN "405" ELSE "404"

Digits == <<"0", "1", "2", "3", "4", "5", "6", "7", "8", "9">>

IsDigit(c) == \E d \in 1..Len(Digits) : Digits[d] = c
DigitValue(c) == (CHOOSE d \in 1..Len(Digits) : Digits[d] = c) - 1

RECURSIVE DecimalValue(_)
DecimalValue(t) ==
    IF t = <<>> THEN 0
    ELSE 10 * DecimalValue(SubSeq(t, 1, Len(t) - 1)) + DigitValue(t[Len(t)])

\* an int parameter: the text of a decimal number, or a validation error
ParseInt(t) ==
    IF t # <<>> /\ \A i \in 1..Len(t) : IsDigit(t[i])
    THEN Some(DecimalValue(t))
    ELSE None

\* the body of a POST as a BookCreate: absent optional fields default to None
ParseBookCreate(body) ==
    IF /\ body # None
       /\ {"title", "author"} \subseteq The(body).fields_set
       /\ ValidBookCreate(The(body))
    THEN Some([title |-> The(body).title, author |-> The(body).author,
               isbn |-> The(body).isbn,
               published_year |-> The(body).published_year])
    ELSE None

ParseBookUpdate(body) ==
    IF body # None /\ ValidBookUpdate(The(body)) THEN body ELSE None

Invalid(rows) == Response(rows, 422, <<>>)

\* the application: dispatch, validation of the parameters, the handler
App(rows, req) ==
    LET route == Dispatch(req.method, req.path)
        book_id == ParseInt(req.path[1])
        skip == IF req.skip = None THEN Some(0) ELSE ParseInt(The(req.skip))
        limit == IF req.limit = None THEN Some(100) ELSE ParseInt(The(req.limit))
        create == ParseBookCreate(req.body)
        update == ParseBookUpdate(req.body)
    IN CASE route = "get_books" ->
              IF skip = None \/ limit = None THEN Invalid(rows)
              ELSE route_get_books(rows, The(skip), The(limit))
         [] route = "get_book" ->
              IF book_id = None THEN Invalid(rows)
              ELSE route_get_book(rows, The(book_id))
         [] route = "create_book" ->
              IF create = None THEN Invalid(rows)
              ELSE route_create_book(rows, The(create))
         [] route = "update_book" ->
              IF book_id = None \/ update = None THEN Invalid(rows)
              ELSE route_update_book(rows, The(book_id), The(update))
         [] route = "delete_book" ->
              IF book_id = None THEN Invalid(rows)
              ELSE route_delete_book(rows, The(book_id))
         [] route = "search_books" ->
              IF req.q = None THEN Invalid(rows)
              ELSE route_search_books(rows, The(req.q))
         [] route = "get_book_by_isbn" -> route_get_book_by_isbn(rows, req.path[2])
         [] route = "get_book_stats" -> route_get_book_stats(rows)
         [] route = "405" -> Response(rows, 405, <<>>)
         [] OTHER -> Response(rows, 404, <<>>)

Methods == {"GET", "POST", "PUT", "DELETE"}

Paths ==
    { <<>>, <<<<"1">>>>, <<<<"1", "2">>>>, <<SegSearch>>, <<SegStats>>, <<SegIsbn>>,
      <<SegIsbn, Isbn13>>, <<SegStats, <<"1">>>> }

Bodies ==
    {None} \cup
    {Some(b) : b \in
        {[fields_set |-> Fields, title |-> Some(Dune), author |-> Some(Herbert),
          isbn |-> Some(Isbn13), published_year |-> Some(1965)],
         [fields_set |-> {"title", "author"}, title |-> Some(Emma),
          author |-> Some(Herbert), isbn |-> None, published_year |-> None],
         [fields_set |-> {"published_year"}, title |-> None, author |-> None,
          isbn |-> None, published_year |-> Some(1965)],
         [fields_set |-> {"title"}, title |-> None, author |-> None,
          isbn |-> None, published_year |-> None]}}

Requests ==
    [method : Methods, path : Paths, body : Bodies,
     q : Opt({<<"u", "n">>}), skip : Opt({<<"x">>}), limit : {None}]

\* one request, from its arrival to its response
Handle ==
    \E req \in Requests :
        LET r == App(books, req)
        IN /\ books' = r.rows
           /\ http' = [req |-> req, route |-> Dispatch(req.method, req.path),
                       status |-> r.status, calls |-> r.calls]
           /\ Track
           /\ UNCHANGED <<last, sessions>>

NextHttp == Handle

SpecHttp == Init /\ [][NextHttp]_vars

StorageFailures == {"IntegrityError"}

\* C6: every Book Store call a handler makes through book_repository
\* returns a Book, a sequence of Books, None or a boolean, or raises a
\* storage-layer failure
C6_RepositoryCallsComplete ==
    \A i \in 1..Len(http.calls) :
        \/ http.calls[i].ret.kind \in {"Book", "List", "None", "Bool"}
        \/ http.calls[i].ret.kind = "Raise" /\ http.calls[i].ret.val \in StorageFailures

\* C10: GET /api/books/search is handled by search_books and GET
\* /api/books/stats by get_book_stats, neither by the /{book_id} route
C10_LiteralRoutesReached ==
    /\ (http.route # "none" /\ http.req.method = "GET" /\ http.req.path = <<SegSearch>>)
          => http.route = "search_books"
    /\ (http.route # "none" /\ http.req.method = "GET" /\ http.req.path = <<SegStats>>)
          => http.route = "get_book_stats"

====
